---- MODULE Spec2Model ----
(***************************************************************************)
(* A model of fal_scraper_v2.0.py: the metadata batch (fetch_anime_data    *)
(* under a semaphore, gathered by main), the classification                *)
(* (calculate_variables), the sort stage (sort_data), the rows written by  *)
(* populate_sheet, the retry-wrapped forum operations, the active period  *)
(* and the post counting of create_posts_sheet.                            *)
(***************************************************************************)
EXTENDS Integers, Sequences, FiniteSets, TLC

VARIABLES
    \* static configuration (user variables section)
    anime_ids,          \* the tracked ids, in list order
    max_conc_requests,  \* concurrency cap
    retry_limit,        \* number of attempts
    sort_column,        \* sort key letter
    \* metadata batch
    sem_value,          \* asyncio.Semaphore._value
    sem_waiters,        \* asyncio.Semaphore._waiters (FIFO of task positions)
    task,               \* position -> state of its fetch_anime_data coroutine
    error_count,        \* module-level error counter of log_print
    main_pc,            \* position of the top-level script
    datas,              \* mapping id -> record returned by main()
    failed_anime_ids,   \* module-level failure list
    sorted_datas,       \* result of sort_data
    sheet_rows,         \* rows written by populate_sheet
    \* calculate_variables as a pure function
    calc_in, calc_out,
    \* one retry-wrapped forum operation run on its own
    op,
    \* the forum stage (lines 474-481, 831-850)
    enable_posts,          \* user variable: fetch the forum data
    current_week,          \* week of the season the run happens in
    current_period,        \* week number closing the active period
    current_period_start,  \* start of the active period
    current_period_end,    \* end of the active period
    forum_data,            \* result of fetch_forum_data
    post_counts,           \* the global post_counts, unbound until line 841
    thread_posters,        \* per title and thread, the set built at line 745
    \* fetch_forum_data as concurrent tasks (lines 661-703)
    forum_pc,              \* position of fetch_forum_data
    feed_pages,            \* per topic, the number of pages its feed holds
    all_thread_data,       \* the flattened list of discovered threads
    detail_task,           \* per thread, its fetch_thread_details coroutine
    probe_task,            \* per thread, its fetch_last_post coroutine
    \* the clock and the season (lines 421-455)
    now,                   \* the current instant, in the calendar of its year
    current_season,        \* name of the season selected
    season_start           \* its first day, counted from 1 January of now's year

mainVars == <<anime_ids, max_conc_requests, sort_column, sem_value, sem_waiters,
              task, error_count, main_pc, datas, failed_anime_ids,
              sorted_datas, sheet_rows>>
calcVars == <<calc_in, calc_out>>
opVars   == <<op>>
batchVars == <<forum_pc, feed_pages, all_thread_data, detail_task, probe_task>>
clockVars == <<now, current_season, season_start>>
forumVars == <<enable_posts, current_week, current_period, current_period_start,
               current_period_end, forum_data, post_counts, thread_posters,
               batchVars, clockVars>>
vars     == <<mainVars, retry_limit, calcVars, opVars, forumVars>>

----------------------------------------------------------------------------
\* Bounds of the model

NumIds == 2
MaxCap == 2
MaxRetry == 2
MaxOpRetry == 3
MaxK == 2
MaxRows == 4
MaxThreads == 2
MaxPages == 2
MaxRunIds == 2

----------------------------------------------------------------------------
\* Small helpers

Max(a, b) == IF a >= b THEN a ELSE b
Min(a, b) == IF a <= b THEN a ELSE b

Range(s) == {s[i] : i \in DOMAIN s}

\* ceil(n / d) for n >= 0, d > 0, with exact division
CeilDiv(n, d) == (n + d - 1) \div d

Positions == 1..NumIds
TrackedIds == 1..NumIds

\* every ordering of the tracked ids (the list holds distinct ids)
IdOrders == {s \in [Positions -> TrackedIds] : \A i, j \in Positions : i # j => s[i] # s[j]}

----------------------------------------------------------------------------
\* The metadata source: the JSON document the API serves for an id
\* (fields=mean,num_favorites,statistics,status, plus the default id and title)

StatusOf(i) ==
    CASE i % 4 = 1 -> "currently_airing"
      [] i % 4 = 2 -> "not_yet_aired"
      [] i % 4 = 3 -> "finished_airing"
      [] OTHER     -> "currently_airing"

\* a str is the sequence of its code points; the title of id i is one lower-case
\* letter; mean is in hundredths; malformed tells that a count of the statistics
\* is not a number (int() of it raises)
RecordOf(i) ==
    [is_str |-> FALSE, text |-> <<>>, id |-> i, title |-> <<96 + i>>,
     has_mean |-> (i % 2 = 1), mean |-> 100 * (10 - i), num_favorites |-> 3 * i,
     status |-> StatusOf(i), malformed |-> FALSE,
     watching |-> 300 * i, completed |-> 40 * i, dropped |-> 7 * i,
     plan_to_watch |-> 1000 * i]

----------------------------------------------------------------------------
\* calculate_variables (lines 234-271); the result also carries the two local
\* noise floors the function computed

\* ceil(n / d) as math.ceil of a true quotient, d > 0
CeilQuot(n, d) == -((-n) \div d)

\* line 243: math.ceil(200 + ptw // 250); the floor division already yields an integer
preair_noise_floor(ptw) == 200 + (ptw \div 250)

\* mutant: the quotient is floored as in line 243
comp_noise_floor_Floor(watching) == 100 + (watching \div 30)

\* line 246: math.ceil(100 + watching / 30)
comp_noise_floor(watching) == 100 + CeilQuot(watching, 30)

\* mutant: the floor itself still counts as noise
IsPreairNoise_Le(watching, floor) == watching <= floor

\* line 250: watching < preair_noise_floor
IsPreairNoise(watching, floor) == watching < floor

\* a ratio num/den kept exact; 0.00 is <<0, 1>>
Ratio(num, den) == <<num, den>>

\* mutant: the finished_airing branch is missing, so such a record falls through
\* to the final else
calculate_variables_NoFinished(data) ==
    LET w0 == data.watching
        c0 == data.completed
        d0 == data.dropped
        ptw == data.plan_to_watch
        pf == preair_noise_floor(ptw)
        cf == comp_noise_floor(w0)
        z == CASE data.status = "not_yet_aired" ->
                    IF IsPreairNoise(w0, pf)
                    THEN [status_code |-> "NYA", watching |-> 0, completed |-> 0, dropped |-> 0]
                    ELSE [status_code |-> "PRE", watching |-> w0, completed |-> 0, dropped |-> d0]
               [] data.status = "currently_airing" ->
                    IF c0 < cf
                    THEN [status_code |-> "AIR", watching |-> w0, completed |-> 0, dropped |-> d0]
                    ELSE [status_code |-> "FIN?", watching |-> w0, completed |-> c0, dropped |-> d0]
               [] OTHER ->
                    [status_code |-> "UNK", watching |-> w0, completed |-> c0, dropped |-> d0]
        watch_comp == z.watching + z.completed
        watch_drop == watch_comp + z.dropped
    IN  [status_code |-> z.status_code, watching |-> z.watching,
         completed |-> z.completed, dropped |-> z.dropped, ptw |-> ptw,
         watch_comp |-> watch_comp, watch_drop |-> watch_drop,
         active_ratio |-> IF ptw > 0 THEN Ratio(watch_comp, ptw) ELSE Ratio(0, 1),
         preair_noise_floor |-> pf, comp_noise_floor |-> cf]

calculate_variables(data) ==
    LET w0 == data.watching
        c0 == data.completed
        d0 == data.dropped
        ptw == data.plan_to_watch
        pf == preair_noise_floor(ptw)
        cf == comp_noise_floor(w0)
        z == CASE data.status = "not_yet_aired" ->
                    IF IsPreairNoise(w0, pf)
                    THEN [status_code |-> "NYA", watching |-> 0, completed |-> 0, dropped |-> 0]
                    ELSE [status_code |-> "PRE", watching |-> w0, completed |-> 0, dropped |-> d0]
               [] data.status = "finished_airing" ->
                    [status_code |-> "FIN", watching |-> w0, completed |-> c0, dropped |-> d0]
               [] data.status = "currently_airing" ->
                    IF c0 < cf
                    THEN [status_code |-> "AIR", watching |-> w0, completed |-> 0, dropped |-> d0]
                    ELSE [status_code |-> "FIN?", watching |-> w0, completed |-> c0, dropped |-> d0]
               [] OTHER ->
                    [status_code |-> "UNK", watching |-> w0, completed |-> c0, dropped |-> d0]
        watch_comp == z.watching + z.completed
        watch_drop == watch_comp + z.dropped
    IN  [status_code |-> z.status_code, watching |-> z.watching,
         completed |-> z.completed, dropped |-> z.dropped, ptw |-> ptw,
         watch_comp |-> watch_comp, watch_drop |-> watch_drop,
         active_ratio |-> IF ptw > 0 THEN Ratio(watch_comp, ptw) ELSE Ratio(0, 1),
         preair_noise_floor |-> pf, comp_noise_floor |-> cf]

----------------------------------------------------------------------------
\* sort_data (lines 274-310)

\* the numbers that occur in keys: rationals n/d (d > 0) and +-float('inf')
Inf == [inf |-> 1, n |-> 0, d |-> 1]
Num(n) == [inf |-> 0, n |-> n, d |-> 1]
Frac(r) == [inf |-> 0, n |-> r[1], d |-> r[2]]
Neg(a) == [inf |-> -a.inf, n |-> -a.n, d |-> a.d]
NumLess(a, b) ==
    \/ a.inf < b.inf
    \/ a.inf = 0 /\ b.inf = 0 /\ a.n * b.d < b.n * a.d

\* str.lower() on code points
Lower(s) == [i \in DOMAIN s |-> IF s[i] \in 65..90 THEN s[i] + 32 ELSE s[i]]

\* Python's comparison of two str: the first differing code point decides, a
\* proper prefix is smaller
StrLess(s, t) ==
    \E k \in 1..(Min(Len(s), Len(t)) + 1) :
        /\ \A i \in 1..(k - 1) : s[i] = t[i]
        /\ \/ k > Len(s) /\ k <= Len(t)
           \/ k <= Len(s) /\ k <= Len(t) /\ s[k] < t[k]

\* a key is (bool, number) or, for the title column, a str; both are kept in one
\* triple <<bool, number, str>> whose unused part is constant
KeyLess(k1, k2) ==
    \/ k1[1] < k2[1]
    \/ k1[1] = k2[1] /\ NumLess(k1[2], k2[2])
    \/ k1[1] = k2[1] /\ ~NumLess(k1[2], k2[2]) /\ ~NumLess(k2[2], k1[2])
         /\ StrLess(k1[3], k2[3])

\* isinstance(x, str) as the first component of a key tuple
Flag(x) == IF x.is_str THEN 1 ELSE 0

\* lines 237-240: int() of a count that is not a number raises
CalcRaises(data) == data.malformed

\* line 278: get_sortable_value
get_sortable_value(x, key) ==
    IF x.is_str THEN Inf
    ELSE IF key = "mean" THEN (IF x.has_mean THEN Num(x.mean) ELSE Inf)
    ELSE Num(x.num_favorites)

\* post_counts.get(id, 0) on the global post_counts
PostCountOf(id) ==
    IF id \in DOMAIN post_counts.count THEN post_counts.count[id] ELSE 0

\* line 298: the condition under which the key of the drop-rate column divides
KeyIDivides(x) == ~x.is_str /\ calculate_variables(x).watch_drop > 0

\* line 305: status_order.get(code, 4)
status_order(code) ==
    CASE code = "FIN" -> 0 [] code = "FIN?" -> 1 [] code = "AIR" -> 2
      [] code = "PRE" -> 3 [] code = "NYA" -> 4 [] code = "ERR" -> 5 [] OTHER -> 4

\* mutant: the key of the ID column without the isinstance flag
KeyM_NoFlag(x) == <<0, IF x.is_str THEN Num(0) ELSE Num(x.id), <<>>>>

\* line 307: key of the ID column
KeyM(x) == <<Flag(x), IF x.is_str THEN Inf ELSE Num(x.id), <<>>>>

SortColumns == {"A", "B", "C", "D", "E", "F", "G", "H", "I", "J", "K", "L", "M"}

\* lines 281-307: the key function of each column
SortKey(x, col) ==
    CASE col = "A" -> <<0, Num(0), IF x.is_str THEN x.text ELSE Lower(x.title)>>
      [] col = "B" -> <<Flag(x), IF x.is_str THEN Num(0)
                                 ELSE Neg(get_sortable_value(x, "mean")), <<>>>>
      [] col = "C" -> <<Flag(x), Neg(get_sortable_value(x, "num_favorites")), <<>>>>
      [] col = "D" -> <<Flag(x), IF x.is_str THEN Num(0)
                                 ELSE Num(-PostCountOf(x.id)), <<>>>>
      [] col = "E" -> <<Flag(x), IF x.is_str THEN Num(0)
                                 ELSE Num(-calculate_variables(x).watching), <<>>>>
      [] col = "F" -> <<Flag(x), IF x.is_str THEN Num(0)
                                 ELSE Num(-calculate_variables(x).completed), <<>>>>
      [] col = "G" -> <<Flag(x), IF x.is_str THEN Num(0)
                                 ELSE Num(-calculate_variables(x).watch_comp), <<>>>>
      [] col = "H" -> <<Flag(x), IF x.is_str THEN Num(0)
                                 ELSE Num(-calculate_variables(x).dropped), <<>>>>
      [] col = "I" -> <<Flag(x), IF KeyIDivides(x)
                                 THEN Neg(Frac(Ratio(calculate_variables(x).dropped,
                                                     calculate_variables(x).watch_drop)))
                                 ELSE Num(0), <<>>>>
      [] col = "J" -> <<Flag(x), IF x.is_str THEN Num(0)
                                 ELSE Num(-calculate_variables(x).ptw), <<>>>>
      [] col = "K" -> <<Flag(x), IF x.is_str THEN Num(0)
                                 ELSE Neg(Frac(calculate_variables(x).active_ratio)), <<>>>>
      [] col = "L" -> <<Flag(x), IF x.is_str THEN Num(5)
                                 ELSE Num(status_order(calculate_variables(x).status_code)),
                        <<>>>>
      [] OTHER     -> KeyM(x)

\* the key function raises: NameError on the unbound post_counts (line 288), the
\* exception of calculate_variables (lines 290-305), ZeroDivisionError (line 298)
KeyRaises(x, col) ==
    /\ ~x.is_str
    /\ CASE col = "D" -> ~post_counts.defined
         [] col \in {"E", "F", "G", "H", "J", "K", "L"} -> CalcRaises(x)
         [] col = "I" -> \/ CalcRaises(x)
                         \/ KeyIDivides(x) /\ calculate_variables(x).watch_drop = 0
         [] OTHER -> FALSE

\* sorted() is stable: x goes after every element whose key is not greater
InsertStable(sorted, x, col) ==
    LET n == Cardinality({i \in DOMAIN sorted :
                            ~KeyLess(SortKey(x, col), SortKey(sorted[i], col))})
    IN  SubSeq(sorted, 1, n) \o <<x>> \o SubSeq(sorted, n + 1, Len(sorted))

RECURSIVE StableSort(_, _)
StableSort(seq, col) ==
    IF seq = <<>> THEN <<>>
    ELSE InsertStable(StableSort(SubSeq(seq, 1, Len(seq) - 1), col), seq[Len(seq)], col)

\* datas.values(): the records in insertion order, i.e. in the order of ids
RECURSIVE DictValues(_, _)
DictValues(ids, d) ==
    IF ids = <<>> THEN <<>>
    ELSE (IF Head(ids) \in DOMAIN d THEN <<d[Head(ids)]>> ELSE <<>>)
         \o DictValues(Tail(ids), d)

sort_data(ids, d, col) ==
    IF col \in SortColumns THEN StableSort(DictValues(ids, d), col)
    ELSE DictValues(ids, d)

\* sorted() calls the key function on every element: its exception leaves sort_data
SortRaises(ids, d, col) ==
    /\ col \in SortColumns
    /\ \E i \in DOMAIN DictValues(ids, d) : KeyRaises(DictValues(ids, d)[i], col)

----------------------------------------------------------------------------
\* populate_sheet (lines 313-355): one written row per element of datas

\* mutant: the quotient is taken whatever the denominator
DropRate_NoGuard(dropped, watch_drop) == Ratio(dropped, watch_drop)

\* line 346: dropped / watch_drop if watch_drop > 0 else 0
DropRate(dropped, watch_drop) ==
    IF watch_drop > 0 THEN Ratio(dropped, watch_drop) ELSE Ratio(0, 1)

\* lines 336-340: the values of calculate_variables, or those of the except clause
CalcOrErr(data) ==
    IF CalcRaises(data)
    THEN [status_code |-> "ERR", watching |-> 0, completed |-> 0, dropped |-> 0,
          ptw |-> 0, watch_comp |-> 0, watch_drop |-> 0, active_ratio |-> Ratio(0, 1)]
    ELSE calculate_variables(data)

SheetRow(data) ==
    IF data.is_str
    THEN [is_error |-> TRUE, text |-> data.text, id |-> 0, title |-> <<>>,
          has_score |-> FALSE, score |-> 0, favorites |-> 0,
          status_code |-> "", watching |-> 0, completed |-> 0, watch_comp |-> 0,
          dropped |-> 0, drop_rate |-> Ratio(0, 1), ptw |-> 0,
          ptw_ratio |-> Ratio(0, 1), posts |-> 0]
    ELSE LET v == CalcOrErr(data)
         IN  [is_error |-> FALSE, text |-> <<>>, id |-> data.id, title |-> data.title,
              has_score |-> data.has_mean /\ data.mean # 0,
              score |-> IF data.has_mean THEN data.mean ELSE 0,
              favorites |-> data.num_favorites,
              status_code |-> v.status_code, watching |-> v.watching,
              completed |-> v.completed, watch_comp |-> v.watch_comp,
              dropped |-> v.dropped,
              drop_rate |-> DropRate(v.dropped, v.watch_drop),
              ptw |-> v.ptw, ptw_ratio |-> v.active_ratio, posts |-> 0]

\* line 339: one ERROR event per record whose classification raised
PopulateErrors(rows) ==
    Cardinality({j \in DOMAIN rows : ~rows[j].is_str /\ CalcRaises(rows[j])})

populate_sheet(rows) == [j \in DOMAIN rows |-> SheetRow(rows[j])]

----------------------------------------------------------------------------
\* The active period (lines 458-481); times are whole hours since season_start

HoursPerWeek == 168
SeasonStart == 0
Weeks == 1..13

\* line 465: the period value 'n/a'
NA == -1

\* lines 464-469
PeriodOf(week) ==
    IF week > 13 \/ week < 1 THEN NA
    ELSE IF week = 13 THEN 13 ELSE Min(((week + 1) \div 2) * 2, 12)

\* lines 477-480, for a numeric period
PeriodStart(period) ==
    IF period = 2 THEN SeasonStart ELSE SeasonStart + HoursPerWeek * (period - 2)

\* line 481
PeriodEnd(period) == SeasonStart + HoursPerWeek * period

----------------------------------------------------------------------------
\* The season of the current instant (lines 421-455). An instant is given by the
\* weekday of 1 January of its year (0 = Monday), whether that year is a leap
\* year, the day of the year (0 = 1 January) and the hour, all read in the
\* working timezone; a date is a day of that year, counted from 1 January and
\* negative or beyond the year's end for a date of a neighbouring year.

HoursPerDay == 24
WeeksPerSeason == 13
HourSamples == {0, 12, 23}
YearLength(leap) == IF leap THEN 366 ELSE 365

Instants ==
    {t \in [jan1_weekday : 0..6, leap : BOOLEAN, day : 0..365, hour : HourSamples] :
        t.day < YearLength(t.leap)}

\* the hours of instant t since 1 January 00:00 of its year
HoursOf(t) == HoursPerDay * t.day + t.hour

\* lines 432-433: the Monday of the week that contains 4 January
iso_week_start(jan1_weekday) == 3 - ((jan1_weekday + 3) % 7)

\* lines 435-440, in the order of the dict
SeasonNames == <<"winter", "spring", "summer", "fall">>
season_week_starts == <<0, 13, 26, 39>>

\* lines 424-440 without an override: the start dates of the seasons of a year
get_season_start(jan1_weekday) ==
    [n \in DOMAIN SeasonNames |-> iso_week_start(jan1_weekday) + 7 * season_week_starts[n]]

\* the weekday of 1 January of the year after the year of t
NextJan1Weekday(t) == (t.jan1_weekday + YearLength(t.leap)) % 7

\* lines 443-452
get_current_season_and_start(t) ==
    LET season_starts == get_season_start(t.jan1_weekday)
        found == {n \in DOMAIN SeasonNames :
                     /\ HoursPerDay * season_starts[n] <= HoursOf(t)
                     /\ HoursOf(t) < HoursPerDay * (season_starts[n] + 7 * WeeksPerSeason)}
    IN  IF found # {}
        THEN LET n == CHOOSE m \in found : \A q \in found : m <= q
             IN  [season |-> SeasonNames[n], start |-> season_starts[n]]
        ELSE [season |-> "winter",
              start |-> YearLength(t.leap) + get_season_start(NextJan1Weekday(t))[1]]

\* lines 460-462: timedelta.days and // both round down
WeekOf(t, start) ==
    LET delta_days == (HoursOf(t) - HoursPerDay * start) \div HoursPerDay
    IN  (delta_days \div 7) + 1

\* lines 458-471
get_week_and_period(t, start) ==
    [week |-> WeekOf(t, start), period |-> PeriodOf(WeekOf(t, start))]

----------------------------------------------------------------------------
\* The forum aggregation: fetch_forum_data (lines 661-703) and the counting loop
\* of create_posts_sheet (lines 737-761)

\* lines 611 and 649: the instant moved to UTC+2 and written by isoformat()
ToIso(t) == [local |-> t + 2, offset |-> 2]

\* line 746: datetime.fromisoformat gives back an aware datetime; comparing it
\* compares instants
FromIso(s) == s.local - s.offset

\* mutant: the lower bound is applied in period 2 as well
InPeriod_AlwaysLower(t, period, start, end) == start <= t /\ t < end

\* lines 749-756
InPeriod(t, period, start, end) ==
    IF period = 2 THEN t < end ELSE start <= t /\ t < end

\* lines 745-756: the set thread_posters after the loop over the details
RECURSIVE ThreadPosters(_, _, _, _)
ThreadPosters(details, period, start, end) ==
    IF details = <<>> THEN {}
    ELSE LET rest == ThreadPosters(SubSeq(details, 1, Len(details) - 1), period, start, end)
             detail == details[Len(details)]
         IN  IF InPeriod(FromIso(detail.timestamp), period, start, end)
             THEN rest \cup {detail.username}
             ELSE rest

\* mutant: every counted post adds one, whoever wrote it
CountPosters_Posts(details, period, start, end) ==
    Len(SelectSeq(details,
                  LAMBDA detail : InPeriod(FromIso(detail.timestamp), period, start, end)))

\* line 759: len(thread_posters)
CountPosters(details, period, start, end) ==
    Cardinality(ThreadPosters(details, period, start, end))

\* lines 741-759: total_posts after the loop over the threads
RECURSIVE TotalPosts(_, _, _, _)
TotalPosts(threads, period, start, end) ==
    IF threads = <<>> THEN 0
    ELSE TotalPosts(Tail(threads), period, start, end)
         + CountPosters(Head(threads).details, period, start, end)

\* lines 708, 761, 819: the dict post_counts that is returned
create_posts_sheet(data, period, start, end) ==
    [id \in {data[k].anime_id : k \in DOMAIN data} |->
        TotalPosts(data[CHOOSE k \in DOMAIN data : data[k].anime_id = id].threads,
                   period, start, end)]

\* lines 666-701: [] when no thread was found for any id, else one entry per id
\* with the threads of that id
fetch_forum_data(ids, threads_of) ==
    IF \A k \in DOMAIN ids : threads_of[ids[k]] = <<>> THEN <<>>
    ELSE [k \in DOMAIN ids |-> [anime_id |-> ids[k], threads |-> threads_of[ids[k]]]]

\* the per-thread sets of one result of fetch_forum_data
PostersOf(data, period, start, end) ==
    [k \in DOMAIN data |->
        [i \in DOMAIN data[k].threads |->
            ThreadPosters(data[k].threads[i].details, period, start, end)]]

\* what the forum can serve: a post of an author at one of five instants around
\* the active period, and five threads made of such posts
Post(username, t) == [username |-> username, timestamp |-> ToIso(t)]
Thread(n, start, end) ==
    [episode_number |-> n,
     details |->
        CASE n = 1 -> <<Post("a", start + 1), Post("a", end - 1)>>
          [] n = 2 -> <<Post("a", start + 1), Post("b", start)>>
          [] n = 3 -> <<Post("a", start - 1), Post("b", end)>>
          [] n = 4 -> <<Post("b", end - 1), Post("a", end), Post("b", end - 1)>>
          [] OTHER -> <<>>]
ThreadNumbers == 1..5

\* the threads of one title: at most n of them, in any order, repeats allowed
ThreadSeqs(n, start, end) ==
    UNION {[1..m -> {Thread(i, start, end) : i \in ThreadNumbers}] : m \in 0..n}

\* the threads the forum serves for the ids of the run
ThreadsOf(id, start, end) ==
    CASE id = 1 -> <<Thread(2, start, end)>>
      [] id = 5 -> <<Thread(1, start, end), Thread(2, start, end)>>
      [] id = 4 -> <<Thread(3, start, end)>>
      [] id = 6 -> <<Thread(1, start, end)>>
      [] OTHER  -> <<>>

\* lines 845-850: the Posts cell of every row is post_counts.get(ID cell, 0)
MergePosts(rows, counts) ==
    [j \in DOMAIN rows |->
        [rows[j] EXCEPT !.posts = IF ~rows[j].is_error /\ rows[j].id \in DOMAIN counts
                                  THEN counts[rows[j].id] ELSE 0]]

----------------------------------------------------------------------------
\* fetch_anime_data (lines 149-179)

\* what one attempt of session.get / raise_for_status / response.json can give:
\* a document, a ClientResponseError with status 404, 504 or another status,
\* another ClientError, or any other exception (e.g. a timeout)
Responses == {"ok", "e404", "e504", "e500", "net", "exc"}

\* mutant: an attempt count that is one too large
Attempts_PlusOne(rl) == Max(1, rl) + 1

\* line 153: attempts = max(1, retry_limit)
Attempts(rl) == Max(1, rl)

\* mutant: no `except Exception` clause, an unforeseen exception leaves the coroutine
FetchStep_NoCatchAll(resp, attempt, rl) ==
    CASE resp = "ok" -> "return_json"
      [] resp \in {"e404", "e504", "e500"} ->
            IF resp = "e404" \/ resp = "e504" \/ attempt = Max(1, rl) - 1 THEN "fail"
            ELSE "sleep"
      [] resp = "net" ->
            IF attempt = Max(1, rl) - 1 THEN "fail" ELSE "sleep"
      [] OTHER -> "raise"

\* mutant: a not-found response is retried like any other HTTP error
FetchStep_Retry404(resp, attempt, rl) ==
    CASE resp = "ok" -> "return_json"
      [] resp \in {"e404", "e504", "e500"} ->
            IF resp = "e504" \/ attempt = Max(1, rl) - 1 THEN "fail" ELSE "sleep"
      [] OTHER ->
            IF attempt = Max(1, rl) - 1 THEN "fail" ELSE "sleep"

\* mutant: a gateway timeout is retried like any other HTTP error
FetchStep_Retry504(resp, attempt, rl) ==
    CASE resp = "ok" -> "return_json"
      [] resp \in {"e404", "e504", "e500"} ->
            IF resp = "e404" \/ attempt = Max(1, rl) - 1 THEN "fail" ELSE "sleep"
      [] OTHER ->
            IF attempt = Max(1, rl) - 1 THEN "fail" ELSE "sleep"

\* the try/except of lines 155-178: what the coroutine does with the response
\* of attempt number `attempt` (0-based)
FetchStep(resp, attempt, rl) ==
    CASE resp = "ok" -> "return_json"
      [] resp \in {"e404", "e504", "e500"} ->
            IF resp = "e404" THEN "fail"
            ELSE IF resp = "e504" \/ attempt = Attempts(rl) - 1 THEN "fail"
            ELSE "sleep"
      [] resp = "net" ->
            IF attempt = Attempts(rl) - 1 THEN "fail"
            ELSE IF rl > 0 THEN "sleep" ELSE "next"
      [] resp = "exc" ->
            IF attempt = Attempts(rl) - 1 THEN "fail"
            ELSE IF rl > 0 THEN "sleep" ELSE "next"
      [] OTHER -> "raise"

\* asyncio.Semaphore.locked()
SemLocked == sem_value = 0 \/ sem_waiters # <<>>

\* mutant: the gate admits a task whatever the semaphore's state
CanAcquire_NoGate == TRUE

\* Semaphore.acquire on entering `async with semaphore` (line 150)
CanAcquire == ~SemLocked

\* Semaphore.release on leaving `async with semaphore`: the slot goes to the
\* first waiter if there is one (its future is set), else the value grows
ReleasedValue == IF sem_waiters = <<>> THEN sem_value + 1 ELSE sem_value
ReleasedWaiters == IF sem_waiters = <<>> THEN <<>> ELSE Tail(sem_waiters)
WokenBy(t) ==
    IF sem_waiters = <<>> THEN t
    ELSE [t EXCEPT ![Head(sem_waiters)].pc = "woken"]

NewTask(id) ==
    [anime_id |-> id, pc |-> "created", attempt |-> 0, calls |-> 0, sleeps |-> 0,
     errs |-> 0, last |-> "none", result |-> <<>>]

\* the tasks that hold a slot of the semaphore
InFlight == {p \in Positions : task[p].pc \in {"woken", "get", "sleep"}}

\* a task runs to its first suspension: it takes a slot and issues the request,
\* or joins the waiters; tasks start in the order gather() created them
Start(p) ==
    /\ main_pc = "fetch"
    /\ task[p].pc = "created"
    /\ \A q \in Positions : q < p => task[q].pc # "created"
    /\ IF CanAcquire
       THEN /\ sem_value' = sem_value - 1
            /\ task' = [task EXCEPT ![p].pc = "get", ![p].calls = 1]
            /\ UNCHANGED sem_waiters
       ELSE /\ sem_waiters' = Append(sem_waiters, p)
            /\ task' = [task EXCEPT ![p].pc = "wait"]
            /\ UNCHANGED sem_value
    /\ UNCHANGED <<anime_ids, max_conc_requests, retry_limit, sort_column, error_count,
                   main_pc, datas, failed_anime_ids, sorted_datas, sheet_rows,
                   calcVars, opVars, forumVars>>

\* a woken waiter continues after acquire() and issues its first request
Resume(p) ==
    /\ main_pc = "fetch"
    /\ task[p].pc = "woken"
    /\ task' = [task EXCEPT ![p].pc = "get", ![p].calls = 1]
    /\ UNCHANGED <<anime_ids, max_conc_requests, retry_limit, sort_column, sem_value,
                   sem_waiters, error_count, main_pc, datas, failed_anime_ids,
                   sorted_datas, sheet_rows, calcVars, opVars, forumVars>>

\* mutant: the counter is written back from a value read before the batch
LogError_Stale(n) == 1

\* lines 106-110: log_print at level ERROR, error_count += 1 on the global counter
LogError(n) == n + 1

\* the response of the current attempt arrives
Respond(p, resp) ==
    /\ main_pc = "fetch"
    /\ task[p].pc = "get"
    /\ LET step == FetchStep(resp, task[p].attempt, retry_limit)
           t == [task EXCEPT ![p].last = resp]
       IN  CASE step = "return_json" ->
                  /\ task' = WokenBy([t EXCEPT ![p].pc = "done",
                                               ![p].result = <<RecordOf(task[p].anime_id)>>])
                  /\ sem_value' = ReleasedValue
                  /\ sem_waiters' = ReleasedWaiters
                  /\ UNCHANGED error_count
             [] step = "fail" ->
                  /\ task' = WokenBy([t EXCEPT ![p].pc = "done", ![p].result = <<>>,
                                               ![p].errs = @ + 1])
                  /\ error_count' = LogError(error_count)
                  /\ sem_value' = ReleasedValue
                  /\ sem_waiters' = ReleasedWaiters
             [] step = "sleep" ->
                  /\ task' = [t EXCEPT ![p].pc = "sleep", ![p].sleeps = @ + 1]
                  /\ UNCHANGED <<sem_value, sem_waiters, error_count>>
             [] step = "next" ->
                  /\ task' = [t EXCEPT ![p].attempt = @ + 1, ![p].calls = @ + 1]
                  /\ UNCHANGED <<sem_value, sem_waiters, error_count>>
             [] OTHER ->
                  /\ task' = WokenBy([t EXCEPT ![p].pc = "raised"])
                  /\ sem_value' = ReleasedValue
                  /\ sem_waiters' = ReleasedWaiters
                  /\ UNCHANGED error_count
    /\ UNCHANGED <<anime_ids, max_conc_requests, retry_limit, sort_column, main_pc, datas,
                   failed_anime_ids, sorted_datas, sheet_rows, calcVars, opVars, forumVars>>

\* asyncio.sleep(sleep_time) is over: the loop goes to the next attempt, or past
\* its end to the final `return None` of line 179
WakeUp(p) ==
    /\ main_pc = "fetch"
    /\ task[p].pc = "sleep"
    /\ IF task[p].attempt + 1 < Attempts(retry_limit)
       THEN /\ task' = [task EXCEPT ![p].pc = "get", ![p].attempt = @ + 1,
                                    ![p].calls = @ + 1]
            /\ UNCHANGED <<sem_value, sem_waiters>>
       ELSE /\ task' = WokenBy([task EXCEPT ![p].pc = "done", ![p].result = <<>>])
            /\ sem_value' = ReleasedValue
            /\ sem_waiters' = ReleasedWaiters
    /\ UNCHANGED <<anime_ids, max_conc_requests, retry_limit, sort_column, error_count,
                   main_pc, datas, failed_anime_ids, sorted_datas, sheet_rows,
                   calcVars, opVars, forumVars>>

----------------------------------------------------------------------------
\* main (lines 188-194) and the top-level script (lines 200-204, 357-362)

\* mutant: the responses are paired with the ids in ascending order, not list order
MainResult_Sorted(ids, responses) ==
    LET ok == {p \in DOMAIN ids : responses[p] # <<>>}
        rank(id) == Cardinality({q \in ok : ids[q] <= id})
        pos(r) == CHOOSE p \in ok : Cardinality({q \in ok : q <= p}) = r
    IN  [id \in {ids[p] : p \in ok} |-> responses[pos(rank(id))][1]]

\* line 194: {anime_id: response for anime_id, response in zip(anime_ids, responses)
\*            if response is not None}
MainResult(ids, responses) ==
    LET ok == {p \in DOMAIN ids : responses[p] # <<>>}
    IN  [id \in {ids[p] : p \in ok} |->
            responses[CHOOSE p \in ok : ids[p] = id][1]]

\* asyncio.gather returns once every task has returned; an exception of a task
\* is raised out of gather, out of main and out of asyncio.run
Gather ==
    /\ main_pc = "fetch"
    /\ \/ \A p \in Positions : task[p].pc = "done"
       \/ \E p \in Positions : task[p].pc = "raised"
    /\ IF \E p \in Positions : task[p].pc = "raised"
       THEN /\ main_pc' = "aborted"
            /\ UNCHANGED datas
       ELSE /\ main_pc' = "gathered"
            /\ datas' = MainResult(anime_ids, [p \in Positions |-> task[p].result])
    /\ UNCHANGED <<anime_ids, max_conc_requests, retry_limit, sort_column, sem_value,
                   sem_waiters, task, error_count, failed_anime_ids, sorted_datas,
                   sheet_rows, calcVars, opVars, forumVars>>

\* line 204
FailedIds(ids, d) == SelectSeq(ids, LAMBDA id : id \notin DOMAIN d)

RecordFailed ==
    /\ main_pc = "gathered"
    /\ failed_anime_ids' = failed_anime_ids \o FailedIds(anime_ids, datas)
    /\ main_pc' = "recorded"
    /\ UNCHANGED <<anime_ids, max_conc_requests, retry_limit, sort_column, sem_value,
                   sem_waiters, task, error_count, datas, sorted_datas, sheet_rows,
                   calcVars, opVars, forumVars>>

\* line 358
Sort ==
    /\ main_pc = "recorded"
    /\ IF SortRaises(anime_ids, datas, sort_column)
       THEN /\ main_pc' = "aborted"
            /\ UNCHANGED sorted_datas
       ELSE /\ main_pc' = "sorted"
            /\ sorted_datas' = sort_data(anime_ids, datas, sort_column)
    /\ UNCHANGED <<anime_ids, max_conc_requests, retry_limit, sort_column, sem_value,
                   sem_waiters, task, error_count, datas, failed_anime_ids, sheet_rows,
                   calcVars, opVars, forumVars>>

\* line 362
Populate ==
    /\ main_pc = "sorted"
    /\ sheet_rows' = populate_sheet(sorted_datas)
    /\ error_count' = error_count + PopulateErrors(sorted_datas)
    /\ main_pc' = "populated"
    /\ UNCHANGED <<anime_ids, max_conc_requests, retry_limit, sort_column, sem_value,
                   sem_waiters, task, datas, failed_anime_ids,
                   sorted_datas, calcVars, opVars, forumVars>>

\* lines 421-481: the season, week and period of the current instant. The period
\* 'n/a' makes `current_period - 2` of line 480 raise TypeError.
Clock ==
    /\ main_pc = "populated"
    /\ LET found == get_current_season_and_start(now)
           wp == get_week_and_period(now, found.start)
       IN  /\ current_season' = found.season
           /\ season_start' = found.start
           /\ current_week' = wp.week
           /\ current_period' = wp.period
           /\ IF wp.period = NA
              THEN /\ main_pc' = "aborted"
                   /\ UNCHANGED <<current_period_start, current_period_end>>
              ELSE /\ main_pc' = "timed"
                   /\ current_period_start' = PeriodStart(wp.period)
                   /\ current_period_end' = PeriodEnd(wp.period)
    /\ UNCHANGED <<anime_ids, max_conc_requests, retry_limit, sort_column, sem_value,
                   sem_waiters, task, error_count, datas, failed_anime_ids,
                   sorted_datas, sheet_rows, calcVars, opVars, enable_posts, now,
                   forum_data, post_counts, thread_posters, batchVars>>

----------------------------------------------------------------------------
\* The run of the script

NoRecord == [status |-> "", watching |-> 0, completed |-> 0, dropped |-> 0,
             plan_to_watch |-> 0]
IdleCalc == calc_in = NoRecord /\ calc_out = <<>>
IdleOp == op = [name |-> "", pc |-> "idle", attempt |-> 0, calls |-> 0, sleeps |-> 0,
                errs |-> 0, last |-> "none", result |-> "none"]

\* the forum stage has not run: nothing is bound yet
Unbound == [defined |-> FALSE, count |-> <<>>]
NoInstant == [jan1_weekday |-> 0, leap |-> FALSE, day |-> 0, hour |-> 0]
IdleClock ==
    /\ now = NoInstant
    /\ current_season = ""
    /\ season_start = 0
IdleBatch ==
    /\ forum_pc = "idle"
    /\ feed_pages = <<>>
    /\ all_thread_data = <<>>
    /\ detail_task = <<>>
    /\ probe_task = <<>>
IdleForum ==
    /\ IdleBatch
    /\ IdleClock
    /\ enable_posts = FALSE
    /\ current_week = 0
    /\ current_period = 0
    /\ current_period_start = 0
    /\ current_period_end = 0
    /\ forum_data = <<>>
    /\ post_counts = Unbound
    /\ thread_posters = <<>>

Init ==
    /\ anime_ids \in IdOrders
    /\ max_conc_requests \in 1..MaxCap
    /\ retry_limit \in 0..MaxRetry
    /\ sort_column = "M"
    /\ sem_value = max_conc_requests
    /\ sem_waiters = <<>>
    /\ task = [p \in Positions |-> NewTask(anime_ids[p])]
    /\ error_count = 0
    /\ main_pc = "fetch"
    /\ datas = <<>>
    /\ failed_anime_ids = <<>>
    /\ sorted_datas = <<>>
    /\ sheet_rows = <<>>
    /\ IdleCalc
    /\ IdleOp
    /\ IdleForum

Next ==
    \/ \E p \in Positions : Start(p)
    \/ \E p \in Positions : Resume(p)
    \/ \E p \in Positions, resp \in Responses : Respond(p, resp)
    \/ \E p \in Positions : WakeUp(p)
    \/ Gather
    \/ RecordFailed
    \/ Sort
    \/ Populate

Spec == Init /\ [][Next]_vars

----------------------------------------------------------------------------
\* calculate_variables applied to one record

RawStatuses == {"not_yet_aired", "currently_airing", "finished_airing", "unknown"}
PtwValues == {250 * k + d : k \in 0..MaxK, d \in {0, 1, 249}} \cup {200000}
WatchingValues == {0, 29, 30, 31} \cup {200 + j : j \in -1..(MaxK + 2)} \cup {999, 1000}
CompletedValues == {0, 99, 100, 101, 102, 134}
DroppedValues == {0, 7}

\* the metadata batch is not running
IdleMain ==
    /\ anime_ids = <<>>
    /\ max_conc_requests = 1
    /\ sort_column = "M"
    /\ sem_value = 1
    /\ sem_waiters = <<>>
    /\ task = <<>>
    /\ error_count = 0
    /\ main_pc = "idle"
    /\ datas = <<>>
    /\ failed_anime_ids = <<>>
    /\ sorted_datas = <<>>
    /\ sheet_rows = <<>>

CalcInit ==
    /\ IdleMain
    /\ retry_limit = 0
    /\ IdleOp
    /\ IdleForum
    /\ calc_in \in [status : RawStatuses, watching : WatchingValues,
                    completed : CompletedValues, dropped : DroppedValues,
                    plan_to_watch : PtwValues]
    /\ calc_out = <<>>

Calculate ==
    /\ calc_out = <<>>
    /\ calc_out' = <<calculate_variables(calc_in)>>
    /\ UNCHANGED <<calc_in, mainVars, retry_limit, opVars, forumVars>>

CalcNext == Calculate

SpecCalc == CalcInit /\ [][CalcNext]_vars

----------------------------------------------------------------------------
\* The sort stage and the renderer applied to a dict of rows (lines 357-362)

\* the rows a dict can hold: records of different shapes and error strings
\*   1: "Zo", finished, all fields present
\*   3: "ab", not yet aired, no mean, every count 0
\*   5: "M", currently airing, few completed
\*   4: "n", a count of the statistics is null
\*   2, 6: the error strings "Err" and "un"
SortPoolIds == {1, 2, 3, 4, 5, 6}
SortPool(id) ==
    CASE id = 1 -> [is_str |-> FALSE, text |-> <<>>, id |-> 1, title |-> <<90, 111>>,
                    has_mean |-> TRUE, mean |-> 750, num_favorites |-> 10,
                    status |-> "finished_airing", malformed |-> FALSE,
                    watching |-> 500, completed |-> 300, dropped |-> 20,
                    plan_to_watch |-> 1000]
      [] id = 3 -> [is_str |-> FALSE, text |-> <<>>, id |-> 3, title |-> <<97, 98>>,
                    has_mean |-> FALSE, mean |-> 0, num_favorites |-> 30,
                    status |-> "not_yet_aired", malformed |-> FALSE,
                    watching |-> 0, completed |-> 0, dropped |-> 0,
                    plan_to_watch |-> 0]
      [] id = 5 -> [is_str |-> FALSE, text |-> <<>>, id |-> 5, title |-> <<77>>,
                    has_mean |-> TRUE, mean |-> 810, num_favorites |-> 20,
                    status |-> "currently_airing", malformed |-> FALSE,
                    watching |-> 900, completed |-> 50, dropped |-> 90,
                    plan_to_watch |-> 300]
      [] id = 4 -> [is_str |-> FALSE, text |-> <<>>, id |-> 4, title |-> <<110>>,
                    has_mean |-> TRUE, mean |-> 600, num_favorites |-> 5,
                    status |-> "finished_airing", malformed |-> TRUE,
                    watching |-> 0, completed |-> 0, dropped |-> 0,
                    plan_to_watch |-> 0]
      [] id = 2 -> [is_str |-> TRUE, text |-> <<69, 114, 114>>, id |-> 0, title |-> <<>>,
                    has_mean |-> FALSE, mean |-> 0, num_favorites |-> 0,
                    status |-> "", malformed |-> FALSE,
                    watching |-> 0, completed |-> 0, dropped |-> 0,
                    plan_to_watch |-> 0]
      [] OTHER  -> [is_str |-> TRUE, text |-> <<117, 110>>, id |-> 0, title |-> <<>>,
                    has_mean |-> FALSE, mean |-> 0, num_favorites |-> 0,
                    status |-> "", malformed |-> FALSE,
                    watching |-> 0, completed |-> 0, dropped |-> 0,
                    plan_to_watch |-> 0]

\* the key orders of a dict with at most MaxRows entries
KeyOrders ==
    UNION {{s \in [1..n -> SortPoolIds] : \A i, j \in 1..n : i # j => s[i] # s[j]} :
           n \in 0..MaxRows}

\* lines 831-850: the forum stage of the run
ForumStage ==
    /\ main_pc = "timed"
    /\ enable_posts
    /\ LET data == fetch_forum_data(anime_ids,
                        [id \in Range(anime_ids) |->
                            ThreadsOf(id, current_period_start, current_period_end)])
           counts == create_posts_sheet(data, current_period, current_period_start,
                                        current_period_end)
       IN  /\ forum_data' = data
           /\ post_counts' = [defined |-> TRUE, count |-> counts]
           /\ thread_posters' = PostersOf(data, current_period, current_period_start,
                                          current_period_end)
           /\ sheet_rows' = MergePosts(sheet_rows, counts)
    /\ main_pc' = "done"
    /\ UNCHANGED <<anime_ids, max_conc_requests, retry_limit, sort_column, sem_value,
                   sem_waiters, task, error_count, datas, failed_anime_ids,
                   sorted_datas, calcVars, opVars, enable_posts, current_week,
                   current_period, current_period_start, current_period_end,
                   batchVars, clockVars>>

\* lines 831 and 852-861: the forum stage is disabled and the workbook is saved
Finish ==
    /\ main_pc = "timed"
    /\ ~enable_posts
    /\ main_pc' = "done"
    /\ UNCHANGED <<anime_ids, max_conc_requests, retry_limit, sort_column, sem_value,
                   sem_waiters, task, error_count, datas, failed_anime_ids,
                   sorted_datas, sheet_rows, calcVars, opVars, forumVars>>

\* an instant of week 3 of the winter season
MidSeason == [jan1_weekday |-> 0, leap |-> FALSE, day |-> 15, hour |-> 12]

SortInit ==
    /\ anime_ids \in KeyOrders
    /\ datas = [id \in Range(anime_ids) |-> SortPool(id)]
    /\ sort_column \in SortColumns \cup {"N"}
    /\ main_pc = "recorded"
    /\ max_conc_requests = 1
    /\ sem_value = 1
    /\ sem_waiters = <<>>
    /\ task = <<>>
    /\ error_count = 0
    /\ failed_anime_ids = <<>>
    /\ sorted_datas = <<>>
    /\ sheet_rows = <<>>
    /\ retry_limit = 0
    /\ IdleCalc
    /\ IdleOp
    /\ enable_posts \in BOOLEAN
    /\ now = MidSeason
    /\ current_season = ""
    /\ season_start = 0
    /\ current_week = 0
    /\ current_period = 0
    /\ current_period_start = 0
    /\ current_period_end = 0
    /\ forum_data = <<>>
    /\ post_counts = Unbound
    /\ thread_posters = <<>>
    /\ IdleBatch

SortNext == Sort \/ Populate \/ Clock \/ ForumStage \/ Finish

SpecSort == SortInit /\ [][SortNext]_vars

----------------------------------------------------------------------------
\* The season, week and period of every instant of every kind of year

\* the rows of one fetched title have been written
ClockInit ==
    /\ anime_ids = <<1>>
    /\ datas = [id \in {1} |-> SortPool(id)]
    /\ sort_column = "M"
    /\ sorted_datas = sort_data(anime_ids, datas, sort_column)
    /\ sheet_rows = populate_sheet(sorted_datas)
    /\ main_pc = "populated"
    /\ max_conc_requests = 1
    /\ sem_value = 1
    /\ sem_waiters = <<>>
    /\ task = <<>>
    /\ error_count = 0
    /\ failed_anime_ids = <<>>
    /\ IdleCalc
    /\ IdleOp
    /\ retry_limit = 0
    /\ now \in Instants
    /\ current_season = ""
    /\ season_start = 0
    /\ enable_posts = FALSE
    /\ current_week = 0
    /\ current_period = 0
    /\ current_period_start = 0
    /\ current_period_end = 0
    /\ forum_data = <<>>
    /\ post_counts = Unbound
    /\ thread_posters = <<>>
    /\ IdleBatch

ClockNext == Clock

SpecClock == ClockInit /\ [][ClockNext]_vars

----------------------------------------------------------------------------
\* The whole run, from the validation of the configured ids to the saved
\* workbook, with the metadata batch taken as one step

\* the ids the API serves a document for, and an entry that is not a number
RunIds == {1, 3, 4, 5}
NonNumeric == -1
RunEntries == RunIds \cup {NonNumeric}

\* the configured lists: empty, or distinct entries
RunConfigs ==
    UNION {{s \in [1..n -> RunEntries] : \A i, j \in 1..n : i # j => s[i] # s[j]} :
           n \in 0..MaxRunIds}

\* str(id).isdigit()
IsDigit(id) == id >= 0

\* lines 139-141
validate_anime_ids(ids) == (\A i \in DOMAIN ids : IsDigit(ids[i])) /\ Len(ids) > 0

\* lines 143-146
Validate ==
    /\ main_pc = "start"
    /\ IF validate_anime_ids(anime_ids)
       THEN /\ main_pc' = "fetch"
            /\ UNCHANGED error_count
       ELSE /\ main_pc' = "exited"
            /\ error_count' = LogError(error_count)
    /\ UNCHANGED <<anime_ids, max_conc_requests, retry_limit, sort_column, sem_value,
                   sem_waiters, task, datas, failed_anime_ids, sorted_datas,
                   sheet_rows, calcVars, opVars, forumVars>>

\* lines 188-203: asyncio.run(main(anime_ids)) as one step; the fetches of the ids
\* in `fetched` return a document, every other fetch fails, logs one error and
\* returns None
FetchAll ==
    /\ main_pc = "fetch"
    /\ task = <<>>
    /\ \E fetched \in SUBSET Range(anime_ids) :
          /\ datas' = [id \in fetched |-> SortPool(id)]
          /\ error_count' = error_count + Cardinality(Range(anime_ids) \ fetched)
    /\ main_pc' = "gathered"
    /\ UNCHANGED <<anime_ids, max_conc_requests, retry_limit, sort_column, sem_value,
                   sem_waiters, task, failed_anime_ids, sorted_datas, sheet_rows,
                   calcVars, opVars, forumVars>>

\* an instant of the last week of a year whose 4 January is a Sunday
YearEnd == [jan1_weekday |-> 3, leap |-> FALSE, day |-> 363, hour |-> 12]
\* an instant of week 13 of the fall season
LateFall == [jan1_weekday |-> 0, leap |-> TRUE, day |-> 360, hour |-> 23]
ClockSamples == {MidSeason, LateFall, YearEnd}

RunInit ==
    /\ anime_ids \in RunConfigs
    /\ sort_column \in SortColumns
    /\ enable_posts \in BOOLEAN
    /\ now \in ClockSamples
    /\ main_pc = "start"
    /\ max_conc_requests = 1
    /\ sem_value = 1
    /\ sem_waiters = <<>>
    /\ task = <<>>
    /\ error_count = 0
    /\ datas = <<>>
    /\ failed_anime_ids = <<>>
    /\ sorted_datas = <<>>
    /\ sheet_rows = <<>>
    /\ retry_limit = 0
    /\ IdleCalc
    /\ IdleOp
    /\ current_season = ""
    /\ season_start = 0
    /\ current_week = 0
    /\ current_period = 0
    /\ current_period_start = 0
    /\ current_period_end = 0
    /\ forum_data = <<>>
    /\ post_counts = Unbound
    /\ thread_posters = <<>>
    /\ IdleBatch

RunNext ==
    \/ Validate
    \/ FetchAll
    \/ RecordFailed
    \/ Sort
    \/ Populate
    \/ Clock
    \/ ForumStage
    \/ Finish

SpecRun == RunInit /\ [][RunNext]_vars

----------------------------------------------------------------------------
\* create_posts_sheet applied to a result of fetch_forum_data, in any week of
\* the season

PostsInit ==
    /\ IdleMain
    /\ IdleCalc
    /\ IdleOp
    /\ retry_limit = 0
    /\ enable_posts = TRUE
    /\ current_week \in Weeks
    /\ current_period = PeriodOf(current_week)
    /\ current_period_start = PeriodStart(current_period)
    /\ current_period_end = PeriodEnd(current_period)
    /\ \E t1 \in ThreadSeqs(MaxThreads, current_period_start, current_period_end),
          t2 \in ThreadSeqs(1, current_period_start, current_period_end) :
          forum_data = fetch_forum_data(<<1, 2>>, <<t1, t2>>)
    /\ post_counts = Unbound
    /\ thread_posters = <<>>
    /\ forum_pc = "returned"
    /\ feed_pages = <<>>
    /\ all_thread_data = <<>>
    /\ detail_task = <<>>
    /\ probe_task = <<>>
    /\ IdleClock

\* line 841
CreatePostsSheet ==
    /\ forum_pc = "returned"
    /\ ~post_counts.defined
    /\ post_counts' = [defined |-> TRUE,
                       count |-> create_posts_sheet(forum_data, current_period,
                                                    current_period_start,
                                                    current_period_end)]
    /\ thread_posters' = PostersOf(forum_data, current_period, current_period_start,
                                   current_period_end)
    /\ UNCHANGED <<mainVars, retry_limit, calcVars, opVars, enable_posts, current_week,
                   current_period, current_period_start, current_period_end,
                   forum_data, batchVars, clockVars>>

PostsNext == CreatePostsSheet

SpecPosts == PostsInit /\ [][PostsNext]_vars

----------------------------------------------------------------------------
\* fetch_forum_data step by step (lines 661-703): the discovery of the threads,
\* then one fetch_thread_details and one fetch_last_post task per thread, run
\* concurrently under one gather, then the merge and create_posts_sheet

\* line 585: the default of the parameter batch_size
batch_size == 100

\* the threads the board index of a title lists (lines 528-533): two for title
\* 1, one for title 2, none for any other title
DiscoveredThreads(id) ==
    CASE id = 1 -> <<[anime_id |-> 1, episode_number |-> 1, topic |-> 1, details |-> <<>>],
                     [anime_id |-> 1, episode_number |-> 2, topic |-> 2, details |-> <<>>]>>
      [] id = 2 -> <<[anime_id |-> 2, episode_number |-> 1, topic |-> 3, details |-> <<>>]>>
      [] OTHER  -> <<>>
Topics == {1, 2, 3}

\* a post as the feed serves it; complete is FALSE when created_at or the name of
\* created_by is missing
RawPost(name, t, complete) == [name |-> name, at |-> t, complete |-> complete]

\* the posts of page i of the feed of a topic
PagePosts(topic, i, start, end) ==
    CASE topic = 1 /\ i = 1 -> <<RawPost("a", start + 1, TRUE), RawPost("b", start + 2, FALSE)>>
      [] topic = 1 /\ i = 2 -> <<RawPost("b", start + 3, TRUE)>>
      [] topic = 1          -> <<RawPost("a", end - 1, TRUE)>>
      [] topic = 2 /\ i = 1 -> <<RawPost("b", start + 1, TRUE)>>
      [] topic = 2 /\ i = 2 -> <<RawPost("b", start + 5, TRUE), RawPost("a", end, TRUE)>>
      [] topic = 3 /\ i = 1 -> <<RawPost("a", start + 1, TRUE)>>
      [] topic = 3 /\ i = 3 -> <<RawPost("b", start + 4, TRUE)>>
      [] OTHER              -> <<>>

\* the response of the feed for an offset: the posts of the page and whether
\* paging.next is present
PageAt(topic, offset, pages, start, end) ==
    LET i == (offset \div batch_size) + 1
    IN  [posts |-> PagePosts(topic, i, start, end), next |-> i < pages]

\* lines 606-614: username and converted timestamp of every complete post
RECURSIVE CollectPosts(_)
CollectPosts(posts) ==
    IF posts = <<>> THEN <<>>
    ELSE (IF Head(posts).complete THEN <<Post(Head(posts).name, Head(posts).at)>> ELSE <<>>)
         \o CollectPosts(Tail(posts))

\* every complete post of the first n pages of a feed, in feed order
RECURSIVE FeedPosts(_, _, _, _)
FeedPosts(topic, n, start, end) ==
    IF n = 0 THEN <<>>
    ELSE FeedPosts(topic, n - 1, start, end) \o CollectPosts(PagePosts(topic, n, start, end))

\* what fetch_last_post can return: None (status, markup, exception on the last
\* attempt), the post the feed ends with, or a post the feed lacks yet
ProbeOutcomes == {"none", "dup", "new"}
ProbeResult(topic, outcome, pages, start, end) ==
    LET feed == FeedPosts(topic, pages, start, end)
    IN  CASE outcome = "dup" /\ feed # <<>> -> <<feed[Len(feed)]>>
          [] outcome = "new" -> <<Post("c", start + 10 + topic)>>
          [] OTHER -> <<>>

NewDetailTask == [pc |-> "page", offset |-> 0, requested |-> <<>>,
                  thread_details |-> <<>>, failed |-> FALSE]
NewProbeTask == [pc |-> "get", result |-> <<>>]

\* line 665: the non-empty results of fetch_forum_threads, flattened in id order
RECURSIVE Flatten(_)
Flatten(results) ==
    IF results = <<>> THEN <<>> ELSE Head(results) \o Flatten(Tail(results))

\* lines 664-675: the gather of fetch_forum_threads; a title whose board index
\* cannot be read gives [] after two ERROR events
DiscoverAll ==
    /\ forum_pc = "start"
    /\ \E failed \in SUBSET Range(anime_ids) :
          LET found == Flatten([k \in DOMAIN anime_ids |->
                                  IF anime_ids[k] \in failed THEN <<>>
                                  ELSE DiscoveredThreads(anime_ids[k])])
          IN  /\ all_thread_data' = found
              /\ error_count' = error_count + 2 * Cardinality(failed)
              /\ detail_task' = [k \in DOMAIN found |-> NewDetailTask]
              /\ probe_task' = [k \in DOMAIN found |-> NewProbeTask]
              /\ forum_pc' = IF found = <<>> THEN "returned" ELSE "gather"
    /\ UNCHANGED <<anime_ids, max_conc_requests, retry_limit, sort_column, sem_value,
                   sem_waiters, task, main_pc, datas, failed_anime_ids, sorted_datas,
                   sheet_rows, calcVars, opVars, enable_posts, current_week,
                   current_period, current_period_start, current_period_end,
                   forum_data, post_counts, thread_posters, feed_pages, clockVars>>

\* mutant: a failed page discards the posts of the pages before it
AfterFailure_Discard(t) == [t EXCEPT !.pc = "done", !.failed = TRUE, !.thread_details = <<>>]

\* lines 596-598 and 624-625: the loop is left and thread_details is returned as
\* it stands
AfterFailure(t) == [t EXCEPT !.pc = "done", !.failed = TRUE]

\* mutant: the loop ends after every page, cursor or not
AfterPage_NoCursor(t, page) ==
    [t EXCEPT !.thread_details = @ \o CollectPosts(page.posts), !.pc = "done"]

\* lines 600-621: the posts of a received page are collected and the cursor
\* decides between the next offset and the end of the loop
AfterPage(t, page) ==
    [t EXCEPT !.thread_details = @ \o CollectPosts(page.posts),
              !.offset = IF page.next THEN @ + batch_size ELSE @,
              !.pc = IF page.next THEN "page" ELSE "done"]

\* lines 592-621: one pass of the while loop of fetch_thread_details for thread
\* k; fetch_page gave a document, or None after its attempts
PageStep(k, ok) ==
    /\ forum_pc = "gather"
    /\ k \in DOMAIN detail_task
    /\ detail_task[k].pc = "page"
    /\ LET t == detail_task[k]
           topic == all_thread_data[k].topic
           page == PageAt(topic, t.offset, feed_pages[topic], current_period_start,
                          current_period_end)
           asked == [t EXCEPT !.requested = Append(@, t.offset)]
       IN  IF ~ok
           THEN /\ detail_task' = [detail_task EXCEPT ![k] = AfterFailure(asked)]
                /\ error_count' = error_count + 1
           ELSE /\ detail_task' = [detail_task EXCEPT ![k] = AfterPage(asked, page)]
                /\ UNCHANGED error_count
    /\ UNCHANGED <<anime_ids, max_conc_requests, retry_limit, sort_column, sem_value,
                   sem_waiters, task, main_pc, datas, failed_anime_ids, sorted_datas,
                   sheet_rows, calcVars, opVars, enable_posts, current_week,
                   current_period, current_period_start, current_period_end,
                   forum_data, post_counts, thread_posters, forum_pc, feed_pages,
                   all_thread_data, probe_task, clockVars>>

\* lines 628-659: fetch_last_post of thread k returns
ProbeStep(k, outcome) ==
    /\ forum_pc = "gather"
    /\ k \in DOMAIN probe_task
    /\ probe_task[k].pc = "get"
    /\ LET topic == all_thread_data[k].topic
       IN  probe_task' = [probe_task EXCEPT
                ![k] = [pc |-> "done",
                        result |-> ProbeResult(topic, outcome, feed_pages[topic],
                                               current_period_start, current_period_end)]]
    /\ UNCHANGED <<anime_ids, max_conc_requests, retry_limit, sort_column, sem_value,
                   sem_waiters, task, error_count, main_pc, datas, failed_anime_ids, sorted_datas,
                   sheet_rows, calcVars, opVars, enable_posts, current_week,
                   current_period, current_period_start, current_period_end,
                   forum_data, post_counts, thread_posters, forum_pc, feed_pages,
                   all_thread_data, detail_task, clockVars>>

\* mutant: the probes are paired with the threads one position off
ProbeFor_Shifted(k) == probe_task[(k % Len(probe_task)) + 1].result

\* lines 681-684: zip pairs thread k with the k-th probe task, whenever it ended
ProbeFor(k) == probe_task[k].result

\* lines 684-687: thread['details'] = details, then the probed post is appended
MergedThreads ==
    [k \in DOMAIN all_thread_data |->
        [all_thread_data[k] EXCEPT
            !.details = detail_task[k].thread_details \o ProbeFor(k)]]

\* lines 679-703: gather returns once every task has returned; the threads are
\* merged and collected per id
GatherForum ==
    /\ forum_pc = "gather"
    /\ \A k \in DOMAIN detail_task : detail_task[k].pc = "done"
    /\ \A k \in DOMAIN probe_task : probe_task[k].pc = "done"
    /\ all_thread_data' = MergedThreads
    /\ forum_data' = fetch_forum_data(anime_ids,
                         [id \in Range(anime_ids) |->
                             SelectSeq(MergedThreads, LAMBDA th : th.anime_id = id)])
    /\ forum_pc' = "returned"
    /\ UNCHANGED <<mainVars, retry_limit, calcVars, opVars, enable_posts, current_week,
                   current_period, current_period_start, current_period_end,
                   post_counts, thread_posters, feed_pages, detail_task, probe_task,
                   clockVars>>

ForumInit ==
    /\ anime_ids = <<1, 2>>
    /\ max_conc_requests = 1
    /\ sort_column = "M"
    /\ sem_value = 1
    /\ sem_waiters = <<>>
    /\ task = <<>>
    /\ error_count = 0
    /\ main_pc = "timed"
    /\ datas = <<>>
    /\ failed_anime_ids = <<>>
    /\ sorted_datas = <<>>
    /\ sheet_rows = <<>>
    /\ retry_limit = 1
    /\ IdleCalc
    /\ IdleOp
    /\ IdleClock
    /\ enable_posts = TRUE
    /\ current_week = 3
    /\ current_period = PeriodOf(current_week)
    /\ current_period_start = PeriodStart(current_period)
    /\ current_period_end = PeriodEnd(current_period)
    /\ forum_data = <<>>
    /\ post_counts = Unbound
    /\ thread_posters = <<>>
    /\ forum_pc = "start"
    /\ feed_pages \in [Topics -> 1..MaxPages]
    /\ all_thread_data = <<>>
    /\ detail_task = <<>>
    /\ probe_task = <<>>

ForumNext ==
    \/ DiscoverAll
    \/ \E k \in Topics, ok \in BOOLEAN : PageStep(k, ok)
    \/ \E k \in Topics, outcome \in ProbeOutcomes : ProbeStep(k, outcome)
    \/ GatherForum
    \/ CreatePostsSheet

SpecForum == ForumInit /\ [][ForumNext]_vars

\* lines 679-682: the event loop runs the gathered tasks until each has returned
SpecForumFair == SpecForum /\ WF_vars(ForumNext)

----------------------------------------------------------------------------
\* The retry-wrapped forum operations, each run on its own:
\* fetch_forum_threads (lines 490-549), fetch_page (lines 552-582) and
\* fetch_last_post (lines 628-659)

OpNames == {"fetch_forum_threads", "fetch_page", "fetch_last_post"}

\* what one session.get and the handling of its body can give
OpResponses(name) ==
    CASE name = "fetch_forum_threads" -> {"ok", "bad_status", "exc"}
      [] name = "fetch_page"          -> {"ok", "e403", "bad_status", "bad_json", "exc"}
      [] OTHER                        -> {"ok", "bad_status", "no_post", "exc"}

\* the range of the for loop: lines 497, 553 and 632
LoopBound(name, rl) ==
    IF name = "fetch_last_post" THEN Max(0, rl) ELSE Max(1, rl)

\* the attempt on which the except clause gives up: lines 545, 578 and 656
LastAttempt(name, rl) ==
    IF name = "fetch_last_post" THEN rl - 1 ELSE Max(0, rl - 1)

\* the value returned when the operation gives up
FailureValue(name) == IF name = "fetch_forum_threads" THEN "[]" ELSE "None"

\* the ERROR events logged while handling a response that is not a success
OpErrors(name, resp, last) ==
    CASE name = "fetch_forum_threads" -> IF last THEN 2 ELSE 1
      [] name = "fetch_page" ->
            IF resp = "e403" THEN 0
            ELSE (IF resp = "bad_status" THEN 2 ELSE 1) + (IF last THEN 1 ELSE 0)
      [] OTHER -> IF resp = "exc" /\ last THEN 1 ELSE 0

\* what the operation does with a response: "return" a value, "sleep" for
\* sleep_time, or "pause" for one second (line 559) before the next attempt
OpStep(name, resp, attempt, rl) ==
    CASE resp = "ok" -> "return"
      [] name = "fetch_page" /\ resp = "e403" -> "pause"
      [] name = "fetch_last_post" /\ resp \in {"bad_status", "no_post"} -> "fail"
      [] OTHER -> IF attempt = LastAttempt(name, rl) THEN "fail" ELSE "sleep"

NewOp(name) ==
    [name |-> name, pc |-> "loop", attempt |-> 0, calls |-> 0, sleeps |-> 0,
     errs |-> 0, last |-> "none", result |-> "none"]

OpsInit ==
    /\ IdleMain
    /\ IdleCalc
    /\ IdleForum
    /\ retry_limit \in 0..MaxOpRetry
    /\ op \in {NewOp(name) : name \in OpNames}

\* the head of the for loop: the next attempt issues its remote call, or the
\* loop is over and the function returns (lines 549, 582, and the implicit
\* return None at the end of fetch_last_post)
OpIssue ==
    /\ op.pc = "loop"
    /\ IF op.attempt < LoopBound(op.name, retry_limit)
       THEN op' = [op EXCEPT !.pc = "call", !.calls = @ + 1]
       ELSE op' = [op EXCEPT !.pc = "done", !.result = FailureValue(op.name)]
    /\ UNCHANGED <<mainVars, retry_limit, calcVars, forumVars>>

OpRespond(resp) ==
    /\ op.pc = "call"
    /\ resp \in OpResponses(op.name)
    /\ LET step == OpStep(op.name, resp, op.attempt, retry_limit)
           o == [op EXCEPT !.last = resp,
                           !.errs = @ + OpErrors(op.name, resp,
                                                 op.attempt = LastAttempt(op.name, retry_limit))]
       IN  CASE step = "return" -> op' = [o EXCEPT !.pc = "done", !.result = "data"]
             [] step = "fail"   -> op' = [o EXCEPT !.pc = "done",
                                                    !.result = FailureValue(op.name)]
             [] step = "pause"  -> op' = [o EXCEPT !.pc = "pause"]
             [] OTHER           -> op' = [o EXCEPT !.pc = "sleep", !.sleeps = @ + 1]
    /\ UNCHANGED <<mainVars, retry_limit, calcVars, forumVars>>

\* asyncio.sleep is over and the loop goes on
OpWake ==
    /\ op.pc \in {"sleep", "pause"}
    /\ op' = [op EXCEPT !.pc = "loop", !.attempt = @ + 1]
    /\ UNCHANGED <<mainVars, retry_limit, calcVars, forumVars>>

OpsNext ==
    \/ OpIssue
    \/ \E resp \in {"ok", "e403", "bad_status", "bad_json", "no_post", "exc"} : OpRespond(resp)
    \/ OpWake

SpecOps == OpsInit /\ [][OpsNext]_vars

----------------------------------------------------------------------------
\* Properties of the metadata batch

\* a step of the coroutine of task p
TaskStep(p) ==
    \/ Start(p)
    \/ Resume(p)
    \/ \E resp \in Responses : Respond(p, resp)
    \/ WakeUp(p)

\* an upper bound of the steps task p can still take
AttemptsLeft(p) ==
    CASE task[p].pc = "get"   -> 2 * (Max(1, retry_limit) - task[p].attempt)
      [] task[p].pc = "sleep" -> 2 * (Max(1, retry_limit) - task[p].attempt) - 1
      [] OTHER                -> 0
StepsLeft(p) ==
    CASE task[p].pc = "created" -> 2 * Max(1, retry_limit) + 3
      [] task[p].pc = "wait"    -> 2 * Max(1, retry_limit) + 2
      [] task[p].pc = "woken"   -> 2 * Max(1, retry_limit) + 1
      [] OTHER                  -> AttemptsLeft(p)

Succeeded == {task[p].anime_id : p \in {q \in Positions : task[q].last = "ok"}}
MainReturned == main_pc \in {"gathered", "recorded", "sorted", "populated"}
Terminal(p) == task[p].pc = "done"

\* C1: after a complete run every tracked id appears exactly once in the rows
\* handed to the renderer, as a data row if its fetch succeeded and as a failure
\* placeholder row if it failed; no tracked id is omitted.
C1_EveryTrackedIdHasARow ==
    main_pc = "populated" =>
        /\ Len(sorted_datas) = Len(anime_ids)
        /\ \A id \in Range(anime_ids) :
              id \in Succeeded =>
                 Cardinality({j \in DOMAIN sorted_datas :
                                ~sorted_datas[j].is_str /\ sorted_datas[j].id = id}) = 1
        /\ Cardinality({j \in DOMAIN sorted_datas : sorted_datas[j].is_str})
              = Cardinality(Range(anime_ids) \ Succeeded)

C3_CapRespected ==
    /\ [](Cardinality(InFlight) <= max_conc_requests)
    /\ [](sem_waiters # <<>> => Cardinality(InFlight) = max_conc_requests)
    /\ [][\A p \in Positions :
            (task[p].pc = "wait" /\ task'[p].pc # "wait") =>
               /\ task'[p].pc = "woken"
               /\ \E q \in Positions : q \in InFlight /\ q \notin InFlight']_vars
    /\ [](\A p \in Positions : task[p].pc = "wait" =>
               /\ \E i \in DOMAIN sem_waiters : sem_waiters[i] = p
               /\ \E q \in InFlight : ENABLED TaskStep(q))
    /\ [][(sem_waiters # <<>> /\ \E q \in Positions : q \in InFlight /\ Terminal(q)') =>
               /\ task'[Head(sem_waiters)].pc = "woken"
               /\ sem_waiters' = Tail(sem_waiters)]_vars
    /\ [][\A p \in Positions : task'[p] # task[p] => StepsLeft(p)' < StepsLeft(p)]_vars

C3_Witness ==
    /\ sem_waiters # <<>>
    /\ Cardinality(InFlight) = max_conc_requests
    /\ \E p \in Positions : task[p].pc = "sleep"

\* C4: each id of the result mapping is associated with the record returned by
\* the fetch issued for that id, and whether an id is in the mapping depends
\* only on the outcome of its own fetch, whatever the order of the id list and
\* the order in which the tasks complete.
C4_KeyedResult ==
    MainReturned =>
        /\ \A id \in DOMAIN datas : datas[id].id = id /\ datas[id] = RecordOf(id)
        /\ \A p \in Positions :
              /\ (task[p].last = "ok") <=> (task[p].anime_id \in DOMAIN datas)
              /\ task[p].last = "ok" => datas[task[p].anime_id] = task[p].result[1]

C4_Witness ==
    /\ main_pc = "gathered"
    /\ anime_ids[1] > anime_ids[2]
    /\ anime_ids[1] \in DOMAIN datas
    /\ anime_ids[2] \in DOMAIN datas

\* the step in which task p receives response r for its current attempt
Received(p, r) == task[p].pc = "get" /\ task'[p] # task[p] /\ task'[p].last = r

\* C5: a not-found response makes fetch_anime_data fail at once and for good:
\* no sleep, no further attempt whatever the attempts left, the failure value
\* is returned and the failure is reported once.
C5_NotFoundIsPermanent ==
    /\ [][\A p \in Positions :
            Received(p, "e404") =>
               /\ task'[p].pc = "done"
               /\ task'[p].result = <<>>
               /\ task'[p].calls = task[p].calls
               /\ task'[p].sleeps = task[p].sleeps
               /\ task'[p].errs = task[p].errs + 1
               /\ error_count' = error_count + 1]_vars
    /\ [][\A p \in Positions : task[p].pc = "done" => task'[p] = task[p]]_vars
    /\ [](\A p \in Positions : task[p].last = "e404" =>
               task[p].pc = "done" /\ task[p].errs = 1
               /\ task[p].calls = task[p].attempt + 1)

C5_Witness ==
    \E p \in Positions :
        /\ task[p].last = "e404"
        /\ task[p].pc = "done"
        /\ task[p].attempt + 1 < Max(1, retry_limit)

\* C6: an HTTP error other than not-found is terminal if it is a gateway
\* timeout (on any attempt) or if the attempt was the last allowed one;
\* otherwise the task sleeps and then makes the next attempt.
C6_HttpErrorRetry ==
    /\ [][\A p \in Positions : \A r \in {"e504", "e500"} :
            Received(p, r) =>
               IF r = "e504" \/ task[p].attempt = Max(1, retry_limit) - 1
               THEN /\ task'[p].pc = "done"
                    /\ task'[p].result = <<>>
                    /\ task'[p].errs = task[p].errs + 1
                    /\ task'[p].sleeps = task[p].sleeps
               ELSE /\ task'[p].pc = "sleep"
                    /\ task'[p].sleeps = task[p].sleeps + 1
                    /\ task'[p].errs = task[p].errs]_vars
    /\ [][\A p \in Positions :
            (task[p].pc = "sleep" /\ task'[p] # task[p]) =>
               /\ task'[p].pc = "get"
               /\ task'[p].attempt = task[p].attempt + 1
               /\ task'[p].calls = task[p].calls + 1]_vars

C6_Witness ==
    \E p, q \in Positions :
        /\ task[p].pc = "sleep" /\ task[p].last = "e500"
        /\ task[q].pc = "done" /\ task[q].last = "e504"
        /\ task[q].attempt + 1 < Max(1, retry_limit)

\* C7: under transient network errors fetch_anime_data issues at most
\* max(1, retry_limit) remote calls, sleeps after each failed attempt except the
\* last, returns the record as soon as an attempt succeeds, fails if and only
\* if every allowed attempt failed, and always terminates: a task that is
\* requesting or sleeping can always take its next step, and each step uses up
\* part of a budget fixed by max(1, retry_limit).
C7_TransientRetry ==
    /\ [](\A p \in Positions :
            /\ task[p].calls <= Max(1, retry_limit)
            /\ task[p].pc = "get" => task[p].sleeps = task[p].calls - 1
            /\ task[p].pc = "sleep" =>
                  task[p].sleeps = task[p].calls /\ task[p].calls < Max(1, retry_limit)
            /\ task[p].pc = "done" => task[p].sleeps = task[p].calls - 1
            /\ (task[p].pc = "done" /\ task[p].last \in {"net", "exc"}) =>
                  /\ task[p].result = <<>>
                  /\ task[p].calls = Max(1, retry_limit)
                  /\ task[p].errs = 1
            /\ task[p].last = "ok" =>
                  /\ task[p].pc = "done"
                  /\ task[p].result = <<RecordOf(task[p].anime_id)>>
                  /\ task[p].errs = 0)
    /\ [][\A p \in Positions : \A r \in {"net", "exc"} :
            Received(p, r) =>
               IF task[p].attempt = Max(1, retry_limit) - 1
               THEN task'[p].pc = "done" /\ task'[p].result = <<>>
               ELSE task'[p].pc = "sleep" /\ task'[p].sleeps = task[p].sleeps + 1]_vars
    /\ [](\A p \in Positions : task[p].pc \in {"get", "sleep"} => ENABLED TaskStep(p))
    /\ [][\A p \in Positions :
            (task[p].pc \in {"get", "sleep"} /\ task'[p] # task[p]) =>
               AttemptsLeft(p)' < AttemptsLeft(p)]_vars

C7_Witness ==
    \E p, q \in Positions :
        /\ task[p].pc = "done" /\ task[p].last = "net" /\ task[p].calls = MaxRetry
        /\ task[p].sleeps = MaxRetry - 1
        /\ task[q].pc = "done" /\ task[q].last = "ok" /\ task[q].calls = MaxRetry

----------------------------------------------------------------------------
\* Properties of the retry-wrapped operations

\* C8: the attempt count is clamped to at least 1, so every retry-wrapped
\* remote operation has issued at least one remote call when it returns, also
\* with retry_limit configured as 0.
C8_AtLeastOneCall ==
    op.pc = "done" => op.calls >= 1

----------------------------------------------------------------------------
\* Properties of calculate_variables

\* C9: for a not_yet_aired record, watching below the pre-air noise floor gives
\* NYA with watching, completed and dropped all 0; watching at or above the
\* floor gives PRE with completed 0 and watching and dropped unchanged; with
\* plan_to_watch = 200000 the floor is 1000, so 999 is NYA and 1000 is PRE.
C9_PreairClassification ==
    (calc_out # <<>> /\ calc_in.status = "not_yet_aired") =>
        LET out == calc_out[1] IN
        /\ calc_in.watching < out.preair_noise_floor =>
              /\ out.status_code = "NYA"
              /\ out.watching = 0 /\ out.completed = 0 /\ out.dropped = 0
        /\ calc_in.watching >= out.preair_noise_floor =>
              /\ out.status_code = "PRE"
              /\ out.completed = 0
              /\ out.watching = calc_in.watching
              /\ out.dropped = calc_in.dropped
        /\ calc_in.plan_to_watch = 200000 =>
              /\ out.preair_noise_floor = 1000
              /\ calc_in.watching = 999 => out.status_code = "NYA"
              /\ calc_in.watching = 1000 => out.status_code = "PRE" /\ out.watching = 1000

C9_Witness ==
    /\ calc_out # <<>>
    /\ calc_in.status = "not_yet_aired"
    /\ calc_in.plan_to_watch = 200000
    /\ calc_in.watching = 1000
    /\ calc_in.completed > 0
    /\ calc_out[1].status_code = "PRE"

\* C10: for every non-negative plan_to_watch the pre-air noise floor used by
\* calculate_variables equals 200 + ceil(plan_to_watch / 250) with exact
\* division.
C10_PreairFloorIsCeil ==
    calc_out # <<>> =>
        calc_out[1].preair_noise_floor = 200 + CeilDiv(calc_in.plan_to_watch, 250)

----------------------------------------------------------------------------
\* Properties of the classification, continued

\* C11: for a currently_airing record, with the floor ceil(100 + watching/30):
\* a completed count below the floor gives code AIR and completed 0, a completed
\* count at or above the floor gives code FIN? and completed unchanged; watching,
\* dropped and plan_to_watch are unchanged in both cases.
C11_AiringClassification ==
    (calc_out # <<>> /\ calc_in.status = "currently_airing") =>
        LET v == calc_out[1]
            floor == 100 + CeilDiv(calc_in.watching, 30)
        IN  /\ calc_in.completed < floor =>
                    v.status_code = "AIR" /\ v.completed = 0
            /\ calc_in.completed >= floor =>
                    v.status_code = "FIN?" /\ v.completed = calc_in.completed
            /\ v.watching = calc_in.watching
            /\ v.dropped = calc_in.dropped
            /\ v.ptw = calc_in.plan_to_watch

\* a record one viewer short of the floor where the quotient has a remainder,
\* classified AIR
C11_Witness ==
    /\ calc_out # <<>>
    /\ calc_in.status = "currently_airing"
    /\ calc_in.watching = 29
    /\ calc_in.completed = 100
    /\ calc_out[1].status_code = "AIR"
    /\ calc_out[1].completed = 0

StatusCodes == {"NYA", "PRE", "AIR", "FIN?", "FIN", "UNK"}

\* C12: calculate_variables returns, for every well-formed record, one status code
\* of NYA, PRE, AIR, FIN?, FIN, UNK; a finished_airing record gets FIN with its
\* four counts unchanged; a record whose status is none of the three known ones
\* gets UNK; the input record is not modified.
C12_TotalClassification ==
    /\ [](calc_out # <<>> =>
            LET v == calc_out[1]
            IN  /\ Len(calc_out) = 1
                /\ v.status_code \in StatusCodes
                /\ calc_in.status = "finished_airing" =>
                        /\ v.status_code = "FIN"
                        /\ v.watching = calc_in.watching
                        /\ v.completed = calc_in.completed
                        /\ v.dropped = calc_in.dropped
                        /\ v.ptw = calc_in.plan_to_watch
                /\ calc_in.status \notin {"not_yet_aired", "currently_airing",
                                           "finished_airing"} =>
                        v.status_code = "UNK")
    /\ [][calc_in' = calc_in]_vars

\* a finished record with non-zero counts, and classified
C12_Witness ==
    /\ calc_out # <<>>
    /\ calc_in.status = "finished_airing"
    /\ calc_in.completed = 99
    /\ calc_in.watching = 30
    /\ calc_in.dropped = 7
    /\ calc_out[1].status_code = "FIN"

----------------------------------------------------------------------------
\* Properties of the sort stage and the renderer

\* the rows of the dict in insertion order, and whether sort_data has returned
InputRow(k) == datas[anime_ids[k]]
Sorted == main_pc \in {"sorted", "populated"}
DataRows == {j \in DOMAIN sorted_datas : ~sorted_datas[j].is_str}
FailureRows == {j \in DOMAIN sorted_datas : sorted_datas[j].is_str}
WellFormed == \A k \in DOMAIN anime_ids : ~InputRow(k).malformed

\* C13: for every record with non-negative counts the drop rate (dropped over
\* watching + completed + dropped, after the zeroing) and the ptw ratio (watching +
\* completed over plan_to_watch) are defined and non-negative, 0 when their
\* denominator is 0; no division by zero happens in the deriver, the renderer or
\* the sort keys.
C13_RatiosDefined ==
    /\ main_pc = "populated" =>
         \A j \in DOMAIN sheet_rows :
            LET r == sheet_rows[j]
                wd == r.watching + r.completed + r.dropped
            IN  ~r.is_error =>
                  /\ r.drop_rate[2] > 0 /\ r.drop_rate[1] >= 0
                  /\ r.ptw_ratio[2] > 0 /\ r.ptw_ratio[1] >= 0
                  /\ r.drop_rate = IF wd = 0 THEN <<0, 1>> ELSE <<r.dropped, wd>>
                  /\ r.ptw_ratio = IF r.ptw = 0 THEN <<0, 1>>
                                   ELSE <<r.watching + r.completed, r.ptw>>
    /\ (WellFormed /\ sort_column \in {"I", "K"}) => main_pc # "aborted"

\* a record whose counts are all 0 was sorted by drop rate and rendered
C13_Witness ==
    /\ main_pc = "populated"
    /\ sort_column = "I"
    /\ \E j \in DOMAIN sheet_rows :
          /\ sheet_rows[j].id = 3
          /\ sheet_rows[j].watching + sheet_rows[j].completed + sheet_rows[j].dropped = 0
          /\ sheet_rows[j].ptw = 0
    /\ \E j \in DOMAIN sheet_rows : sheet_rows[j].id = 5 /\ sheet_rows[j].drop_rate = <<90, 990>>

\* C14: a record whose fields cannot be parsed gets status ERR with all counts 0
\* and an error is reported, and every other row is still sorted and rendered,
\* for every sort key: a malformed record never aborts the sort stage or the
\* rendering.  (The post-count key is left out here: it is the subject of C18.)
C14_MalformedRowTolerated ==
    (~WellFormed /\ sort_column # "D") =>
        /\ main_pc # "aborted"
        /\ main_pc = "populated" =>
             /\ Len(sheet_rows) = Len(anime_ids)
             /\ error_count >= 1
             /\ \A j \in DOMAIN sheet_rows :
                   (~sorted_datas[j].is_str /\ sorted_datas[j].malformed) =>
                       /\ sheet_rows[j].status_code = "ERR"
                       /\ sheet_rows[j].watching = 0 /\ sheet_rows[j].completed = 0
                       /\ sheet_rows[j].dropped = 0 /\ sheet_rows[j].ptw = 0

\* C15: for every supported sort key and every input with failure rows, sort_data
\* places every failure row after every data row.
C15_FailuresLast ==
    (Sorted /\ sort_column \in SortColumns) =>
        \A i \in FailureRows, j \in DataRows : j < i

\* C16: with the ID key sort_data returns a permutation of its input in which the
\* data rows are in ascending order of numeric ID and the failure rows come after
\* all data rows in their input order.
C16_IdOrder ==
    (Sorted /\ sort_column = "M") =>
        /\ Len(sorted_datas) = Len(anime_ids)
        /\ \A k \in DOMAIN anime_ids :
              Cardinality({j \in DOMAIN sorted_datas : sorted_datas[j] = InputRow(k)}) = 1
        /\ \A i, j \in DataRows : i < j => sorted_datas[i].id < sorted_datas[j].id
        /\ \A i \in FailureRows, j \in DataRows : j < i
        /\ \A i, j \in FailureRows : i < j =>
              \E k, l \in DOMAIN anime_ids :
                  k < l /\ InputRow(k) = sorted_datas[i] /\ InputRow(l) = sorted_datas[j]

\* the input 5, 1, failure, 3 came out as 1, 3, 5, failure
C16_Witness ==
    /\ Sorted
    /\ sort_column = "M"
    /\ anime_ids = <<5, 1, 2, 3>>
    /\ Len(sorted_datas) = 4
    /\ sorted_datas[1].id = 1 /\ sorted_datas[2].id = 3 /\ sorted_datas[3].id = 5
    /\ sorted_datas[4].is_str

\* C17: with the score key the rows that have a score come in descending order of
\* score, and every row whose score is missing comes after all rows that have one.
C17_ScoreOrder ==
    (Sorted /\ sort_column = "B") =>
        /\ \A i, j \in DataRows :
              (i < j /\ sorted_datas[i].has_mean /\ sorted_datas[j].has_mean) =>
                  sorted_datas[i].mean >= sorted_datas[j].mean
        /\ \A i, j \in DOMAIN sorted_datas :
              ((sorted_datas[i].is_str \/ ~sorted_datas[i].has_mean)
                 /\ ~sorted_datas[j].is_str /\ sorted_datas[j].has_mean) => j < i

\* C18: with the post-count key and forum fetching enabled, the rows handed to
\* the renderer are in descending order of the post counts the forum stage of the
\* same run produces: the counts exist before the sort stage consumes them.
C18_PostCountOrder ==
    (enable_posts /\ sort_column = "D") =>
        /\ main_pc # "aborted"
        /\ main_pc = "done" =>
              \A i, j \in DOMAIN sheet_rows :
                  (i < j /\ ~sheet_rows[i].is_error /\ ~sheet_rows[j].is_error) =>
                      sheet_rows[i].posts >= sheet_rows[j].posts

----------------------------------------------------------------------------
\* Properties of the forum aggregation

RECURSIVE SumTo(_, _)
SumTo(f, n) == IF n = 0 THEN 0 ELSE f[n] + SumTo(f, n - 1)

\* the instant of a stored post, and whether it lies in the active period
InstantOf(detail) == detail.timestamp.local - detail.timestamp.offset
Active(t) ==
    \/ current_period = 2 /\ t < current_period_end
    \/ current_period # 2 /\ current_period_start <= t /\ t < current_period_end
ActiveAuthors(thread) ==
    {thread.details[n].username :
        n \in {m \in DOMAIN thread.details : Active(InstantOf(thread.details[m]))}}

\* C19: the post count of a title is the sum, over the threads of that title, of
\* the number of distinct authors with at least one post in the active period: an
\* author posting twice in a thread counts once, an author posting in two threads
\* counts once per thread, and a title without threads gets 0.
C19_PostCountIsSumOfDistinctAuthors ==
    post_counts.defined =>
        /\ \A k \in DOMAIN forum_data :
              PostCountOf(forum_data[k].anime_id) =
                  SumTo([i \in DOMAIN forum_data[k].threads |->
                            Cardinality(ActiveAuthors(forum_data[k].threads[i]))],
                        Len(forum_data[k].threads))
        /\ \A k \in DOMAIN forum_data :
              forum_data[k].threads = <<>> => PostCountOf(forum_data[k].anime_id) = 0
        /\ forum_data = <<>> => PostCountOf(1) = 0 /\ PostCountOf(2) = 0

\* title 1 has a thread where "a" posted twice and a thread where "a" and "b"
\* posted: its count is 1 + 2; title 2 has no thread and counts 0
C19_Witness ==
    /\ post_counts.defined
    /\ current_period = 4
    /\ Len(forum_data) = 2
    /\ Len(forum_data[1].threads) = 2
    /\ forum_data[1].threads[1].episode_number = 1
    /\ forum_data[1].threads[2].episode_number = 2
    /\ forum_data[2].threads = <<>>
    /\ post_counts.count[1] = 3
    /\ post_counts.count[2] = 0

\* C20: a post at instant t counts when periodStart <= t < periodEnd; in period 2
\* only, the lower bound is dropped (every post before periodEnd counts); a post
\* with t >= periodEnd counts in no period.
C20_PeriodFilter ==
    post_counts.defined =>
        \A k \in DOMAIN forum_data : \A i \in DOMAIN forum_data[k].threads :
            LET details == forum_data[k].threads[i].details
            IN  \A u \in {"a", "b"} :
                  u \in thread_posters[k][i] <=>
                     \E n \in DOMAIN details :
                        /\ details[n].username = u
                        /\ InstantOf(details[n]) < current_period_end
                        /\ current_period # 2 =>
                              InstantOf(details[n]) >= current_period_start

\* in period 2 the post of "a" from before the season counted, the post of "b"
\* at the end of the period did not
C20_Witness ==
    /\ post_counts.defined
    /\ current_period = 2
    /\ Len(forum_data) = 2
    /\ Len(forum_data[1].threads) = 1
    /\ forum_data[1].threads[1].episode_number = 3
    /\ thread_posters[1][1] = {"a"}

----------------------------------------------------------------------------
\* Properties of the forum batch

ThreadIndexes == DOMAIN all_thread_data
TopicOf(k) == all_thread_data[k].topic
ForumReturned == forum_pc = "returned" /\ all_thread_data # <<>>
FailedThreads == {k \in ThreadIndexes : detail_task[k].failed}

\* the posts of the pages thread k received before its fetch ended
PostsReceived(k) ==
    FeedPosts(TopicOf(k),
              IF detail_task[k].failed THEN Len(detail_task[k].requested) - 1
              ELSE Len(detail_task[k].requested),
              current_period_start, current_period_end)

\* the count of a title from the merged threads
ExpectedCount(id) ==
    LET ks == {k \in ThreadIndexes : all_thread_data[k].anime_id = id}
        f == [k \in ThreadIndexes |->
                 IF k \in ks THEN Cardinality(ActiveAuthors(all_thread_data[k])) ELSE 0]
    IN  SumTo(f, Len(all_thread_data))

WithoutProbe(k) == [all_thread_data[k] EXCEPT !.details = detail_task[k].thread_details]

\* the probe of thread k returned a post the feed had already returned
ProbeRepeatsFeed(k) ==
    /\ probe_task[k].result # <<>>
    /\ \E n \in DOMAIN detail_task[k].thread_details :
          detail_task[k].thread_details[n] = probe_task[k].result[1]

CountWithoutProbe(id) ==
    LET ks == {k \in ThreadIndexes : all_thread_data[k].anime_id = id}
        f == [k \in ThreadIndexes |->
                 IF k \in ks THEN Cardinality(ActiveAuthors(WithoutProbe(k))) ELSE 0]
    IN  SumTo(f, Len(all_thread_data))

\* C22: the last-post probe adds at most one record to a thread, the record of
\* the probe made for that very thread whatever the order in which the tasks
\* completed; when the probed post is one the feed already returned, the
\* thread's distinct posters and its title's post count are those without the
\* probe.
C22_ProbeAttachedAndDeduplicated ==
    ForumReturned =>
        /\ \A k \in ThreadIndexes :
              /\ Len(probe_task[k].result) <= 1
              /\ all_thread_data[k].details =
                     detail_task[k].thread_details \o probe_task[k].result
              /\ ProbeRepeatsFeed(k) =>
                     ActiveAuthors(all_thread_data[k]) = ActiveAuthors(WithoutProbe(k))
        /\ post_counts.defined =>
              \A i \in DOMAIN anime_ids :
                  (\A k \in ThreadIndexes :
                       all_thread_data[k].anime_id = anime_ids[i] =>
                           (probe_task[k].result = <<>> \/ ProbeRepeatsFeed(k)))
                  => PostCountOf(anime_ids[i]) = CountWithoutProbe(anime_ids[i])

\* both threads of title 1 were probed and the probes repeated a post of the
\* feed, the thread of title 2 got a new post from its probe; title 1 is counted
C22_Witness ==
    /\ ForumReturned
    /\ post_counts.defined
    /\ Len(all_thread_data) = 3
    /\ ProbeRepeatsFeed(1) /\ ProbeRepeatsFeed(2)
    /\ probe_task[3].result # <<>> /\ ~ProbeRepeatsFeed(3)
    /\ Len(all_thread_data[1].details) = Len(detail_task[1].thread_details) + 1
    /\ post_counts.count[1] = CountWithoutProbe(1)
    /\ post_counts.count[1] >= 2

\* the number of pages of thread k that were received
PagesReceived(k) ==
    IF detail_task[k].failed THEN Len(detail_task[k].requested) - 1
    ELSE Len(detail_task[k].requested)

\* the posts of pages 1..n of a topic: all of them, or those that carry both an
\* author name and a creation time
RECURSIVE PostsOfPages(_, _, _)
PostsOfPages(topic, n, complete_only) ==
    IF n = 0 THEN <<>>
    ELSE LET raw == PagePosts(topic, n, current_period_start, current_period_end)
             kept == SelectSeq(raw, LAMBDA p : p.complete \/ ~complete_only)
         IN  PostsOfPages(topic, n - 1, complete_only)
             \o [m \in DOMAIN kept |-> Post(kept[m].name, kept[m].at)]

\* pages are requested at offsets 0, B, 2B, ..., a further page only after a
\* response with a cursor, and none after a response without one or a failure
Pagination(k) ==
    LET t == detail_task[k]
        pages == feed_pages[TopicOf(k)]
    IN  /\ \A n \in DOMAIN t.requested : t.requested[n] = (n - 1) * batch_size
        /\ Len(t.requested) <= pages
        /\ t.failed => t.pc = "done"
        /\ t.pc = "done" => (t.failed \/ Len(t.requested) = pages)
        /\ t.pc = "page" => (Len(t.requested) < pages
                             /\ t.offset = Len(t.requested) * batch_size)

ThreadSlots == 1..Cardinality(Topics)

\* a fetch that has ended requests nothing more
EndedStaysEnded ==
    \A k \in ThreadSlots :
        (k \in DOMAIN detail_task /\ detail_task[k].pc = "done") =>
            detail_task'[k] = detail_task[k]

\* C25 as stated: the pages are requested at offsets 0, B, 2B, ... and the result
\* holds every post of every page received, in feed order.
C25_EveryPostOfEveryPage ==
    \A k \in DOMAIN detail_task :
        /\ Pagination(k)
        /\ detail_task[k].thread_details = PostsOfPages(TopicOf(k), PagesReceived(k), FALSE)

\* C25, amended: fetch_thread_details requests pages at offsets 0, B, 2B, ... in
\* increasing order, a further page only when the previous response carried a
\* cursor, and stops at the first response without a cursor or the first failed
\* page; for a finite feed it ends, and its result holds, in feed order, every
\* post of every page received that carries both an author name and a creation
\* time (a post lacking either is skipped).
C25_CompletePostsOfEveryPage ==
    /\ [](\A k \in DOMAIN detail_task :
             /\ Pagination(k)
             /\ detail_task[k].thread_details =
                    PostsOfPages(TopicOf(k), PagesReceived(k), TRUE))
    /\ [][EndedStaysEnded]_vars
    /\ \A k \in ThreadSlots :
          (k \in DOMAIN detail_task)
              ~> (k \in DOMAIN detail_task /\ detail_task[k].pc = "done")

\* thread 1 was read over two pages to the page without a cursor and holds the
\* two complete posts of the three it received
C25_Witness ==
    /\ forum_pc = "gather"
    /\ feed_pages[1] = 2
    /\ detail_task[1].pc = "done" /\ ~detail_task[1].failed
    /\ detail_task[1].requested = <<0, batch_size>>
    /\ Len(detail_task[1].thread_details) = 2
    /\ Len(PostsOfPages(1, 2, FALSE)) = 3

\* Properties of the shared variables during the metadata batch

BatchRunning == main_pc = "fetch" /\ main_pc' = "fetch"
ErrorsLogged == SumTo([p \in Positions |-> task[p].errs], Len(anime_ids))
ErrorsLoggedNext == SumTo([p \in Positions |-> task'[p].errs], Len(anime_ids))

ClockRan == current_season # ""
\* the current instant, in hours since the start of the selected season
NowInSeason == HoursOf(now) - HoursPerDay * season_start

\* C26: for every current instant the selected season holds it,
\* season_start <= now < season_start + 13 weeks, so the week is in 1..13, the
\* period is one of 2, 4, 6, 8, 10, 12, 13, and the counting period is a window
\* with current_period_start <= now < current_period_end.
C26_SeasonHoldsNow ==
    ClockRan =>
        /\ main_pc = "timed"
        /\ SeasonStart <= NowInSeason
        /\ NowInSeason < SeasonStart + HoursPerWeek * WeeksPerSeason
        /\ current_week \in Weeks
        /\ current_period \in {2, 4, 6, 8, 10, 12, 13}
        /\ current_period_start <= NowInSeason
        /\ NowInSeason < current_period_end

\* Properties of the whole run

ValidConfig == anime_ids # <<>> /\ \A i \in DOMAIN anime_ids : anime_ids[i] >= 0
RunEnded == main_pc \in {"exited", "aborted", "done"}
\* populate_sheet has been given the rows of the run
RowsHanded == main_pc \in {"populated", "timed", "done"} \/ (main_pc = "aborted" /\ ClockRan)
NoRemoteCall == datas = <<>> /\ forum_data = <<>> /\ failed_anime_ids = <<>>

\* C23: the run ends without handing rows to the renderer exactly when the
\* configured id list is empty or has a non-numeric entry, and then it exits
\* before any remote call; with a valid list no fetch outcome, supported sort
\* key, forum flag or current time aborts the run.
C23_OnlyInvalidConfigIsFatal ==
    /\ (RunEnded /\ ~RowsHanded) => (~ValidConfig /\ main_pc = "exited" /\ NoRemoteCall)
    /\ ~ValidConfig => main_pc \in {"start", "exited"}
    /\ ValidConfig => main_pc \notin {"exited", "aborted"}

====
